---- MODULE Spec2Model ----
(***************************************************************************)
(* The metric functions of finance_utils.py (calculate_xirr,               *)
(* calculate_sharpe_ratio, calculate_volatility, calculate_beta) as        *)
(* operators over bounded price series, and the calls made on them as the  *)
(* actions of a state machine.                                             *)
(*                                                                         *)
(* Reals are exact rationals [n, d]; the IEEE specials the numpy/pandas    *)
(* code can produce (nan, inf) are values of their own; the irrational     *)
(* results (a square root, a power with exponent 365.25/days) are kept as  *)
(* symbolic terms over rationals.                                          *)
(***************************************************************************)
EXTENDS Integers, Sequences, FiniteSets, TLC

VARIABLES prices, market, solver, last, noted

vars == <<prices, market, solver, last, noted>>

(***************************************************************************)
(* Bounds of the model.                                                    *)
(***************************************************************************)
MaxLen == 3

(***************************************************************************)
(* Program constants.                                                      *)
(***************************************************************************)
TradingDays == 252
Percent == 100

(***************************************************************************)
(* Exact rational arithmetic.                                              *)
(***************************************************************************)
Abs(x) == IF x < 0 THEN -x ELSE x

RECURSIVE GCD(_, _)
GCD(a, b) == IF b = 0 THEN a ELSE GCD(b, a % b)

Rat(n, d) ==
    LET g == GCD(Abs(n), Abs(d))
        s == IF d < 0 THEN -1 ELSE 1
    IN  [n |-> (s * n) \div g, d |-> (s * d) \div g]

RAdd(a, b) == Rat(a.n * b.d + b.n * a.d, a.d * b.d)
RSub(a, b) == Rat(a.n * b.d - b.n * a.d, a.d * b.d)
RMul(a, b) == Rat(a.n * b.n, a.d * b.d)
RDiv(a, b) == Rat(a.n * b.d, a.d * b.n)
RInt(k) == [n |-> k, d |-> 1]

(***************************************************************************)
(* Values a metric can return.                                             *)
(*   Num(r)       the rational r                                           *)
(*   NaN, Inf     the IEEE specials                                        *)
(*   Surd(r, k)   k * sqrt(r), r > 0                                       *)
(*   Quot(a, r)   a / sqrt(r), a # 0, r > 0                                *)
(*   Annual(b, days, e)                                                    *)
(*                (b ^ (365.25 / days) - 1) * 100, displaced by e units of *)
(*                the root-finder's residual error (e = 0: exact)          *)
(***************************************************************************)
Num(r) == [kind |-> "num", val |-> r]
Zero == Num(RInt(0))
NaN == [kind |-> "nan"]
Inf == [kind |-> "inf"]
Surd(r, k) == IF r.n = 0 THEN Zero ELSE [kind |-> "surd", rad |-> r, scale |-> k]
Quot(a, r) == IF a.n = 0 THEN Zero ELSE [kind |-> "quot", num |-> a, rad |-> r]
Annual(b, days, e) ==
    IF e = 0 /\ b = RInt(1) THEN Zero
    ELSE IF e = 0 /\ b.n = 0 /\ days > 0 THEN Num(RInt(-Percent))
    ELSE [kind |-> "annual", base |-> b, days |-> days, err |-> e]

IsFinite(v) == v.kind \notin {"nan", "inf", "raise"}

(***************************************************************************)
(* Date strings.  sorted() compares the strings; strptime and to_datetime  *)
(* read a day out of them, or raise.  "2024-1-2" is the same day as        *)
(* "2024-01-02" and sorts after every zero-padded date.                    *)
(***************************************************************************)
Dates == {"2024-01-01", "2024-01-02", "2024-01-03", "2024-1-2", "n/a"}

StrRank(s) ==
    CASE s = "2024-01-01" -> 1
      [] s = "2024-01-02" -> 2
      [] s = "2024-01-03" -> 3
      [] s = "2024-1-2"   -> 4
      [] s = "n/a"        -> 5

Parsable(s) == s # "n/a"

strptime(s) ==
    CASE s = "2024-01-01" -> 1
      [] s = "2024-01-02" -> 2
      [] s = "2024-01-03" -> 3
      [] s = "2024-1-2"   -> 2

Point(d, c) == [date |-> d, close |-> c]

(***************************************************************************)
(* sorted(prices, key=lambda x: x["date"]): a stable sort by the string.   *)
(***************************************************************************)
RECURSIVE Insert(_, _)
Insert(s, p) ==
    IF s = <<>> THEN <<p>>
    ELSE IF StrRank(s[Len(s)].date) <= StrRank(p.date) THEN Append(s, p)
    ELSE Append(Insert(SubSeq(s, 1, Len(s) - 1), p), s[Len(s)])

RECURSIVE SortedFrom(_, _)
SortedFrom(s, acc) ==
    IF s = <<>> THEN acc ELSE SortedFrom(Tail(s), Insert(acc, Head(s)))

\* mutant: the series is used in the order it was given
Unsorted(s) == s

sorted(s) == SortedFrom(s, <<>>)

(***************************************************************************)
(* Control flow of a function body: it returns a value at one of its       *)
(* return statements (path), or raises.  obs records the locals the body   *)
(* had computed by then: days (calculate_xirr), and len(merged_df) after   *)
(* the merge (aligned) and after dropna (pairs) in calculate_beta.         *)
(***************************************************************************)
NoObs == [days |-> 0, aligned |-> 0, pairs |-> 0]

Return(v, path, obs) == [exc |-> FALSE, val |-> v, path |-> path, obs |-> obs]
Raise == [exc |-> TRUE, val |-> [kind |-> "raise"], path |-> "raise", obs |-> NoObs]

\* mutant: the handler reports the error and lets it go on to the caller
AbsorbReraise(b, msg) ==
    IF b.exc THEN [value |-> b.val, diag |-> msg, path |-> "error", obs |-> b.obs]
    ELSE [value |-> b.val, diag |-> "none", path |-> b.path, obs |-> b.obs]

\* except Exception as e: print(...); return 0.0
Absorb(b, msg) ==
    IF b.exc THEN [value |-> Zero, diag |-> msg, path |-> "error", obs |-> b.obs]
    ELSE [value |-> b.val, diag |-> "none", path |-> b.path, obs |-> b.obs]

\* mutant: too short a series answers "no number" instead of 0.0
GuardedNaN == [value |-> NaN, diag |-> "none", path |-> "guard", obs |-> NoObs]

\* if len(prices) < 2: return 0.0
Guarded == [value |-> Zero, diag |-> "none", path |-> "guard", obs |-> NoObs]

(***************************************************************************)
(* scipy's newton(xirr_equation, 0.1, maxiter=100) on                      *)
(*   f(rate) = -initial + final / (1 + rate) ^ (days / 365.25).            *)
(* f is constant when days = 0 or final = 0: the secant step has equal     *)
(* function values at distinct points and raises.  f has no root when      *)
(* initial = 0: the iteration cannot converge.  Otherwise the root is      *)
(* (final/initial) ^ (365.25/days) - 1, and whether the iteration reaches  *)
(* it within 100 steps, and with what residual, is the solver's doing:     *)
(* the variable solver holds that behaviour.                               *)
(***************************************************************************)
SolverModes == {"fail", "exact", "inexact"}

newton(initial, final, days) ==
    IF days = 0 \/ final = 0 \/ initial = 0 \/ solver = "fail"
    THEN Raise
    ELSE Return(Annual(Rat(final, initial), days, IF solver = "exact" THEN 0 ELSE 1),
                "solver", [NoObs EXCEPT !.days = days])

\* mutant: total_return loses its "- 1", so the base is 1 + final/initial
XirrFallbackGross(initial, final, days) ==
    IF days > 0
    THEN IF initial = 0 THEN Raise
         ELSE Return(Annual(RAdd(Rat(final, initial), RInt(1)), days, 0),
                     "closed_form", [NoObs EXCEPT !.days = days])
    ELSE Return(Zero, "fallback_zero", [NoObs EXCEPT !.days = days])

\* mutant: the guard is days != 0, so a negative span is annualized too
XirrFallbackNonZero(initial, final, days) ==
    IF days # 0
    THEN IF initial = 0 THEN Raise
         ELSE Return(Annual(Rat(final, initial), days, 0),
                     "closed_form", [NoObs EXCEPT !.days = days])
    ELSE Return(Zero, "fallback_zero", [NoObs EXCEPT !.days = days])

\* the except: branch of the inner try
XirrFallback(initial, final, days) ==
    IF days > 0
    THEN IF initial = 0 THEN Raise
         ELSE Return(Annual(Rat(final, initial), days, 0),
                     "closed_form", [NoObs EXCEPT !.days = days])
    ELSE Return(Zero, "fallback_zero", [NoObs EXCEPT !.days = days])

XirrBody(ps) ==
    LET sorted_prices == sorted(ps)
        first == sorted_prices[1]
        final == sorted_prices[Len(sorted_prices)]
    IN  IF ~Parsable(first.date) \/ ~Parsable(final.date) THEN Raise
        ELSE LET days == strptime(final.date) - strptime(first.date)
                 root == newton(first.close, final.close, days)
             IN  IF root.exc THEN XirrFallback(first.close, final.close, days)
                 ELSE root

calculate_xirr(ps) ==
    IF Len(ps) < 2 THEN Guarded
    ELSE Absorb(XirrBody(ps), "Error calculating XIRR")

(***************************************************************************)
(* Daily returns of a sorted series; a zero previous close is a            *)
(* ZeroDivisionError (the closes are Python numbers).                      *)
(***************************************************************************)
DivisionByZero(s) == \E i \in 1 .. Len(s) - 1 : s[i].close = 0

DailyReturns(s) ==
    [i \in 1 .. Len(s) - 1 |-> Rat(s[i + 1].close - s[i].close, s[i].close)]

RECURSIVE RSum(_)
RSum(xs) == IF xs = <<>> THEN RInt(0) ELSE RAdd(Head(xs), RSum(Tail(xs)))

\* np.mean
Mean(xs) == RDiv(RSum(xs), RInt(Len(xs)))

\* the sum of products of deviations, divided by n - 1 (ddof=1); n >= 2
Covariance(xs, ys) ==
    LET mx == Mean(xs)
        my == Mean(ys)
        devs == [i \in 1 .. Len(xs) |-> RMul(RSub(xs[i], mx), RSub(ys[i], my))]
    IN  RDiv(RSum(devs), RInt(Len(xs) - 1))

\* np.std(returns, ddof=1) squared: 0/0 = nan for a single return
SampleVariance(xs) ==
    IF Len(xs) < 2 THEN NaN ELSE Num(Covariance(xs, xs))

RiskFreeDefault == Rat(2, 100)
RiskFreeRates == {RInt(0), RiskFreeDefault}

SharpeBody(ps, risk_free_rate) ==
    LET sorted_prices == sorted(ps) IN
    IF DivisionByZero(sorted_prices) THEN Raise
    ELSE LET returns == DailyReturns(sorted_prices) IN
         IF Len(returns) = 0 THEN Return(Zero, "no_returns", NoObs)
         ELSE LET annualized_return == RMul(Mean(returns), RInt(TradingDays))
                  variance == SampleVariance(returns)
              IN  IF variance = NaN THEN Return(NaN, "ratio", NoObs)
                  ELSE IF variance = Zero THEN Return(Zero, "flat", NoObs)
                  ELSE Return(Quot(RSub(annualized_return, risk_free_rate),
                                   RMul(variance.val, RInt(TradingDays))),
                              "ratio", NoObs)

calculate_sharpe_ratio(ps, risk_free_rate) ==
    IF Len(ps) < 2 THEN Guarded
    ELSE Absorb(SharpeBody(ps, risk_free_rate), "Error calculating Sharpe ratio")

VolatilityBody(ps) ==
    LET sorted_prices == sorted(ps) IN
    IF DivisionByZero(sorted_prices) THEN Raise
    ELSE LET returns == DailyReturns(sorted_prices) IN
         IF Len(returns) = 0 THEN Return(Zero, "no_returns", NoObs)
         ELSE LET variance == SampleVariance(returns) IN
              IF variance = NaN THEN Return(NaN, "value", NoObs)
              ELSE Return(Surd(RMul(variance.val, RInt(TradingDays)), Percent),
                          "value", NoObs)

calculate_volatility(ps) ==
    IF Len(ps) < 2 THEN Guarded
    ELSE Absorb(VolatilityBody(ps), "Error calculating volatility")

(***************************************************************************)
(* calculate_beta: the pandas part.  A row of merged_df is                 *)
(* [date, close_stock, close_market, stock_return, market_return]; the     *)
(* returns are numpy floats, so a zero previous close gives inf or nan     *)
(* instead of raising.                                                     *)
(***************************************************************************)
\* pd.to_datetime(df['date']) raises on a string it cannot read
ToDatetimeFails(ps) == \E i \in 1 .. Len(ps) : ~Parsable(ps[i].date)

\* mutant: the join tolerates a day's difference between the two dates
NearDate(p, m) == Abs(strptime(m.date) - strptime(p.date)) <= 1

\* on='date': the join key is the parsed date, compared for equality
SameDate(p, m) == strptime(m.date) = strptime(p.date)

\* the rows of market_df that join the stock row p, in market order
RECURSIVE Matches(_, _)
Matches(p, ms) ==
    IF ms = <<>> THEN <<>>
    ELSE (IF SameDate(p, Head(ms))
          THEN <<[date |-> strptime(p.date), close_stock |-> p.close,
                  close_market |-> Head(ms).close]>>
          ELSE <<>>) \o Matches(p, Tail(ms))

\* pd.merge(stock_df, market_df, on='date'): an inner join, in stock order
RECURSIVE Merge(_, _)
Merge(ss, ms) ==
    IF ss = <<>> THEN <<>> ELSE Matches(Head(ss), ms) \o Merge(Tail(ss), ms)

\* merged_df.sort_values('date'); rows of equal date keep the merge order
RECURSIVE InsertRow(_, _)
InsertRow(s, r) ==
    IF s = <<>> THEN <<r>>
    ELSE IF s[Len(s)].date <= r.date THEN Append(s, r)
    ELSE Append(InsertRow(SubSeq(s, 1, Len(s) - 1), r), s[Len(s)])

RECURSIVE SortRowsFrom(_, _)
SortRowsFrom(s, acc) ==
    IF s = <<>> THEN acc ELSE SortRowsFrom(Tail(s), InsertRow(acc, Head(s)))

SortValues(rows) == SortRowsFrom(rows, <<>>)

\* one element of Series.pct_change(): cur / prev - 1 in float arithmetic
PctChange(prev, cur) ==
    IF prev = 0 THEN (IF cur = 0 THEN NaN ELSE Inf)
    ELSE Num(Rat(cur - prev, prev))

WithReturns(rows) ==
    [i \in 1 .. Len(rows) |->
        [date |-> rows[i].date,
         close_stock |-> rows[i].close_stock,
         close_market |-> rows[i].close_market,
         stock_return |->
            IF i = 1 THEN NaN
            ELSE PctChange(rows[i - 1].close_stock, rows[i].close_stock),
         market_return |->
            IF i = 1 THEN NaN
            ELSE PctChange(rows[i - 1].close_market, rows[i].close_market)]]

NotNaRow(r) == r.stock_return # NaN /\ r.market_return # NaN

\* mutant: the undefined first row is kept
KeepNa(rows) == rows

\* merged_df.dropna()
DropNa(rows) == SelectSeq(rows, NotNaRow)

AllFinite(xs) == \A i \in 1 .. Len(xs) : IsFinite(xs[i])
Vals(xs) == [i \in 1 .. Len(xs) |-> xs[i].val]

\* np.cov(x, y)[0][1]: an inf in either column makes a deviation inf - inf,
\* and a single observation divides by ddof - 1 = 0
NpCov(xs, ys) ==
    IF Len(xs) >= 2 /\ AllFinite(xs) /\ AllFinite(ys)
    THEN Num(Covariance(Vals(xs), Vals(ys)))
    ELSE NaN

\* np.var(x, ddof=1)
NpVar(xs) ==
    IF Len(xs) >= 2 /\ AllFinite(xs) THEN Num(Covariance(Vals(xs), Vals(xs)))
    ELSE NaN

\* covariance / market_variance, in float arithmetic
FloatDiv(a, b) ==
    IF a = NaN \/ b = NaN THEN NaN
    ELSE IF b.val.n = 0 THEN (IF a.val.n = 0 THEN NaN ELSE Inf)
    ELSE Num(RDiv(a.val, b.val))

\* mutant: no guard on a zero market variance
BetaValueUnguarded(covariance, market_variance, obs) ==
    Return(FloatDiv(covariance, market_variance), "beta", obs)

\* if market_variance == 0: return 0.0; beta = covariance / market_variance
BetaValue(covariance, market_variance, obs) ==
    IF market_variance = Zero THEN Return(Zero, "flat_market", obs)
    ELSE Return(FloatDiv(covariance, market_variance), "beta", obs)

BetaBody(stock_prices, market_prices) ==
    IF ToDatetimeFails(stock_prices) \/ ToDatetimeFails(market_prices) THEN Raise
    ELSE
    LET merged == Merge(stock_prices, market_prices)
        aligned == [NoObs EXCEPT !.aligned = Len(merged)]
    IN  IF Len(merged) < 2 THEN Return(Zero, "unaligned", aligned)
        ELSE
        LET valid == DropNa(WithReturns(SortValues(merged)))
            obs == [aligned EXCEPT !.pairs = Len(valid)]
        IN  IF Len(valid) < 2 THEN Return(Zero, "few_returns", obs)
            ELSE
            LET stock_return == [i \in 1 .. Len(valid) |-> valid[i].stock_return]
                market_return == [i \in 1 .. Len(valid) |-> valid[i].market_return]
            IN  BetaValue(NpCov(stock_return, market_return),
                          NpVar(market_return), obs)

calculate_beta(stock_prices, market_prices) ==
    IF Len(stock_prices) < 2 \/ Len(market_prices) < 2 THEN Guarded
    ELSE Absorb(BetaBody(stock_prices, market_prices), "Error calculating beta")

(***************************************************************************)
(* The state machine: an input, and the calls made on it.                  *)
(***************************************************************************)
\* closing prices: a zero close and two distinct positive ones
Closes == {0, 1, 2}
Points == [date : Dates, close : Closes]
Series == UNION {[1 .. n -> Points] : n \in 0 .. MaxLen}

\* the benchmark the single-series runs are paired with, when they have one
MarketSample ==
    <<Point("2024-01-01", 1), Point("2024-01-02", 2), Point("2024-01-03", 1)>>

\* the series of the two-series runs: dates a DataFrame column can hold
BetaDates == {"2024-01-01", "2024-01-02", "2024-01-03", "n/a"}
BetaPoints == [date : BetaDates, close : Closes]
BetaSeries == UNION {[1 .. n -> BetaPoints] : n \in 0 .. MaxLen}

\* a benchmark is a clean series: readable dates, each at most once, in date
\* order; f gives each date its closes: one close, or none when the date is
\* absent from the benchmark
BenchmarkDates == <<"2024-01-01", "2024-01-02", "2024-01-03">>
ClosesOfDate == {<<>>} \cup {<<c>> : c \in Closes}

RECURSIVE Benchmark(_, _)
Benchmark(f, i) ==
    IF i > Len(BenchmarkDates) THEN <<>>
    ELSE (IF f[i] = <<>> THEN <<>> ELSE <<Point(BenchmarkDates[i], f[i][1])>>)
         \o Benchmark(f, i + 1)

BetaMarkets ==
    {Benchmark(f, 1) : f \in [1 .. Len(BenchmarkDates) -> ClosesOfDate]}

\* stock series in the order of their date strings (repeats allowed), one point
\* longer: room for a stray point beside three aligned ones
InDateOrder(s) ==
    \A i \in 1 .. Len(s) - 1 : StrRank(s[i].date) <= StrRank(s[i + 1].date)

OrderedStocks ==
    {s \in UNION {[1 .. n -> BetaPoints] : n \in 0 .. MaxLen + 1} : InDateOrder(s)}

NoCall ==
    [metric |-> "none", value |-> Zero, diag |-> "none", path |-> "none",
     obs |-> NoObs, rf |-> RInt(0)]

Called(m, out, rf) ==
    [metric |-> m, value |-> out.value, diag |-> out.diag, path |-> out.path,
     obs |-> out.obs, rf |-> rf]

\* what a run that compares calls remembers of them: its first call, and
\* whether a call of another metric has followed it.  Other runs keep nothing.
NoHistory == [kept |-> FALSE, call |-> NoCall, mixed |-> FALSE]
History == [kept |-> TRUE, call |-> NoCall, mixed |-> FALSE]

Note(call) ==
    IF ~noted.kept THEN noted
    ELSE IF noted.call = NoCall THEN [noted EXCEPT !.call = call]
    ELSE IF call.metric # noted.call.metric THEN [noted EXCEPT !.mixed = TRUE]
    ELSE noted

\* mutant: the series is sorted where it is, prices.sort(key=...)
SortedInPlace(ps) == sorted(ps)

\* the caller's list after a call: sorted() and pd.DataFrame() build new
\* objects, and nothing is assigned into the list or its records
InputAfterCall(ps) == ps

\* the series of the runs that call again and again: out of order, with an
\* unreadable date, rising and falling
RepeatDates == {"2024-01-01", "2024-01-02", "n/a"}
RepeatPoints == [date : RepeatDates, close : {1, 2}]
RepeatSeries == UNION {[1 .. n -> RepeatPoints] : n \in 0 .. MaxLen}

Init ==
    /\ prices \in Series
    /\ \/ market = <<>> /\ solver \in {"fail", "exact"}
       \/ market = MarketSample /\ solver = "inexact"
    /\ last = NoCall
    /\ noted = NoHistory

InitBeta ==
    /\ prices \in BetaSeries
    /\ market \in BetaMarkets
    /\ solver = "fail"
    /\ last = NoCall
    /\ noted = NoHistory

InitRepeat ==
    /\ prices \in RepeatSeries
    /\ \/ market = <<>> /\ solver \in {"fail", "exact"}
       \/ market = MarketSample /\ solver = "inexact"
    /\ last = NoCall
    /\ noted = History

InitAlign ==
    /\ prices \in OrderedStocks
    /\ market \in BetaMarkets
    /\ solver = "fail"
    /\ last = NoCall
    /\ noted = NoHistory

\* A call returns into last; the caller takes the value before it calls again.
CallXirr ==
    /\ last = NoCall
    /\ last' = Called("xirr", calculate_xirr(prices), RInt(0))
    /\ noted' = Note(last')
    /\ prices' = InputAfterCall(prices)
    /\ UNCHANGED <<market, solver>>

CallSharpe ==
    /\ last = NoCall
    /\ \E rf \in RiskFreeRates :
          last' = Called("sharpe", calculate_sharpe_ratio(prices, rf), rf)
    /\ noted' = Note(last')
    /\ prices' = InputAfterCall(prices)
    /\ UNCHANGED <<market, solver>>

CallVolatility ==
    /\ last = NoCall
    /\ last' = Called("volatility", calculate_volatility(prices), RInt(0))
    /\ noted' = Note(last')
    /\ prices' = InputAfterCall(prices)
    /\ UNCHANGED <<market, solver>>

CallBeta ==
    /\ last = NoCall
    /\ last' = Called("beta", calculate_beta(prices, market), RInt(0))
    /\ noted' = Note(last')
    /\ prices' = InputAfterCall(prices)
    /\ market' = InputAfterCall(market)
    /\ UNCHANGED solver

\* the caller has taken the returned value (main.py rounds it into its answer)
TakeResult ==
    /\ last # NoCall
    /\ last' = NoCall
    /\ UNCHANGED <<prices, market, solver, noted>>

Next == CallXirr \/ CallSharpe \/ CallVolatility \/ CallBeta \/ TakeResult

Spec == Init /\ [][Next]_vars

NextBeta == CallBeta \/ TakeResult

SpecBeta == InitBeta /\ [][NextBeta]_vars

SpecAlign == InitAlign /\ [][NextBeta]_vars

SpecRepeat == InitRepeat /\ [][Next]_vars

(***************************************************************************)
(* Vocabulary of the properties.                                           *)
(***************************************************************************)
CalledOne == last.metric \in {"xirr", "sharpe", "volatility"}

PositiveCloses(s) == \A i \in 1 .. Len(s) : s[i].close > 0
SameCloses(s) == \A i, j \in 1 .. Len(s) : s[i].close = s[j].close
AllParsable(s) == \A i \in 1 .. Len(s) : Parsable(s[i].date)
UniqueDates(s) == \A i, j \in 1 .. Len(s) : i # j => s[i].date # s[j].date
DateStrings(s) == {s[i].date : i \in 1 .. Len(s)}

\* the reorderings of a series
Reorderings(s) ==
    {[i \in 1 .. Len(s) |-> s[f[i]]] : f \in Permutations(1 .. Len(s))}

\* a series without its i-th point
Without(s, i) == SubSeq(s, 1, i - 1) \o SubSeq(s, i + 1, Len(s))

\* zero up to the residual of the root-finder: the root itself is 0
ZeroWithinTolerance(v) ==
    v = Zero \/ (v.kind = "annual" /\ v.base = RInt(1) /\ v.err # 0)

\* readable, pairwise distinct dates and positive closes
WellFormed(s) == AllParsable(s) /\ UniqueDates(s) /\ PositiveCloses(s)

\* every point on the same calendar day
SameDay(s) ==
    \A i, j \in 1 .. Len(s) : strptime(s[i].date) = strptime(s[j].date)

\* a call of calculate_xirr on two points of equal close, the second later
FlatTwoPoints ==
    /\ last.metric = "xirr"
    /\ Len(prices) = 2
    /\ AllParsable(prices)
    /\ prices[1].close = prices[2].close
    /\ strptime(prices[1].date) < strptime(prices[2].date)

\* points that find no partner in the join leave the result as it is
UnmatchedHaveNoEffect ==
    /\ \A i \in 1 .. Len(prices) :
          prices[i].date \notin DateStrings(market)
            => calculate_beta(Without(prices, i), market).value = last.value
    /\ \A i \in 1 .. Len(market) :
          market[i].date \notin DateStrings(prices)
            => calculate_beta(prices, Without(market, i)).value = last.value
    /\ DateStrings(prices) \cap DateStrings(market) = {} => last.value = Zero

\* how far a call of calculate_beta went
PastMerge == last.path \in {"few_returns", "flat_market", "beta"}
ReachedCovariance == last.path \in {"flat_market", "beta"}
SharedDates == DateStrings(prices) \cap DateStrings(market)

\* no two points on the same calendar day
UniqueDays(s) ==
    \A i, j \in 1 .. Len(s) :
        i # j => strptime(s[i].date) # strptime(s[j].date)

\* the order of the date strings is the order of the days they name
CalendarOrdered(s) ==
    \A i, j \in 1 .. Len(s) :
        StrRank(s[i].date) < StrRank(s[j].date)
            <=> strptime(s[i].date) < strptime(s[j].date)

\* the points of the earliest and of the latest day of a series
Earliest(s) ==
    s[CHOOSE i \in 1 .. Len(s) :
        \A j \in 1 .. Len(s) : strptime(s[i].date) <= strptime(s[j].date)]
Latest(s) ==
    s[CHOOSE i \in 1 .. Len(s) :
        \A j \in 1 .. Len(s) : strptime(s[i].date) >= strptime(s[j].date)]

\* a day strictly between the earliest and the latest day of a series
Inside(s, d) ==
    /\ strptime(Earliest(s).date) < strptime(d)
    /\ strptime(d) < strptime(Latest(s).date)

\* the series a point strictly inside may join: it brings a day of its own
Joinable(s) ==
    {q \in Points :
        /\ Parsable(q.date)
        /\ Inside(s, q.date)
        /\ \A i \in 1 .. Len(s) : strptime(s[i].date) # strptime(q.date)}

\* the result is that of the two cash flows -close(earliest), +close(latest)
FromEndpoints ==
    LET e == Earliest(prices)
        l == Latest(prices)
        span == strptime(l.date) - strptime(e.date)
    IN  /\ calculate_xirr(<<e, l>>).value = last.value
        /\ last.path \in {"solver", "closed_form", "fallback_zero"}
              => last.obs.days = span
        /\ last.path = "solver"
              => last.value = Annual(Rat(l.close, e.close), span,
                                     IF solver = "exact" THEN 0 ELSE 1)
        /\ last.path = "closed_form"
              => last.value = Annual(Rat(l.close, e.close), span, 0)

\* removing an inside point, or changing its close, leaves the result as it is
InsideHasNoEffect ==
    \A i \in 1 .. Len(prices) :
        Inside(prices, prices[i].date) =>
            /\ calculate_xirr(Without(prices, i)).value = last.value
            /\ \A c \in Closes :
                  calculate_xirr([prices EXCEPT ![i].close = c]).value
                      = last.value

\* what one call of a metric on the series at hand returns
SingleCall(metric, rf) ==
    CASE metric = "xirr" -> calculate_xirr(prices)
      [] metric = "sharpe" -> calculate_sharpe_ratio(prices, rf)
      [] metric = "volatility" -> calculate_volatility(prices)
      [] metric = "beta" -> calculate_beta(prices, market)

(***************************************************************************)
(* C1: a series of fewer than 2 points makes calculate_xirr,               *)
(* calculate_sharpe_ratio and calculate_volatility return exactly 0.0, and *)
(* calculate_beta returns exactly 0.0 when either of its series has fewer  *)
(* than 2 points, whatever the other one is.                               *)
(***************************************************************************)
C1_ShortSeriesZero ==
    /\ (CalledOne /\ Len(prices) < 2) => last.value = Zero
    /\ (last.metric = "beta" /\ (Len(prices) < 2 \/ Len(market) < 2))
          => last.value = Zero

C1_Witness ==
    /\ last.metric = "beta"
    /\ Len(prices) = 1
    /\ Len(market) >= 2
    /\ last.value = Zero

(***************************************************************************)
(* C2: no metric hands an error to its caller: every call ends with a      *)
(* value, and a call that ended in the exception handler (it printed its   *)
(* diagnostic) returns exactly 0.0.  This covers the division by a zero    *)
(* close, the unreadable date and the error raised inside the XIRR         *)
(* fallback branch.                                                        *)
(***************************************************************************)
C2_NeverRaises ==
    /\ last.value.kind # "raise"
    /\ (last.diag # "none" \/ last.path = "error") => last.value = Zero

\* the root-finder failed and the fallback itself divided by a zero close
C2_Witness ==
    /\ last.metric = "xirr"
    /\ last.path = "error"
    /\ last.diag = "Error calculating XIRR"
    /\ AllParsable(prices)
    /\ last.value = Zero

(***************************************************************************)
(* C3: on series of positive closes, of any length, every metric returns a *)
(* finite number (never nan or inf); in particular the sample standard     *)
(* deviation is defined for every series that passes the length guard.     *)
(* Stated on well-formed series: readable, pairwise distinct dates.        *)
(***************************************************************************)
C3_FiniteResults ==
    (last.metric # "none" /\ WellFormed(prices) /\ WellFormed(market))
        => IsFinite(last.value)

(***************************************************************************)
(* C4: calculate_volatility and calculate_sharpe_ratio return 0.0 for      *)
(* every series of 2 or more points whose closes are all the same.         *)
(* Stated on series of readable, pairwise distinct dates.                  *)
(***************************************************************************)
C4_FlatSeriesZero ==
    (last.metric \in {"sharpe", "volatility"} /\ Len(prices) >= 2
        /\ AllParsable(prices) /\ UniqueDates(prices) /\ SameCloses(prices))
        => last.value = Zero

(***************************************************************************)
(* C5: calculate_xirr returns the same result on every reordering of its   *)
(* input.  As claimed: for every series (it fails already on series of     *)
(* readable dates and positive closes, which is how it is stated here).    *)
(* As amended: for every series whose date strings are pairwise distinct.  *)
(***************************************************************************)
C5_OrderInvariant ==
    (last.metric = "xirr" /\ AllParsable(prices) /\ PositiveCloses(prices)) =>
        \A q \in Reorderings(prices) : calculate_xirr(q).value = last.value

C5_OrderInvariantUniqueDates ==
    (last.metric = "xirr" /\ UniqueDates(prices)) =>
        \A q \in Reorderings(prices) : calculate_xirr(q).value = last.value

\* three points given newest first, with a result that is not the fallback 0
C5_Witness ==
    /\ last.metric = "xirr"
    /\ Len(prices) = 3
    /\ UniqueDates(prices)
    /\ StrRank(prices[1].date) > StrRank(prices[2].date)
    /\ StrRank(prices[2].date) > StrRank(prices[3].date)
    /\ PositiveCloses(prices)
    /\ prices[1].close # prices[3].close
    /\ last.value # Zero

C7_FlatMarketZero ==
    (last.metric = "beta" /\ SameCloses(market)) => last.value = Zero

\* three aligned days, a moving stock and a flat benchmark
C7_Witness ==
    /\ last.metric = "beta"
    /\ WellFormed(prices) /\ WellFormed(market)
    /\ Len(market) = 3
    /\ SameCloses(market)
    /\ ~SameCloses(prices)
    /\ last.path = "flat_market"
    /\ last.obs.pairs = 2

(***************************************************************************)
(* C8: calculate_beta joins the two series on equal dates: a point whose   *)
(* date does not occur in the other series has no effect on the result,    *)
(* and with no common date the result is 0.0.  As claimed: for every point *)
(* of either series (it fails already with positive closes, which is how   *)
(* it is stated here).  As amended: provided every date of both series can *)
(* be read and every close is positive (one unreadable date makes the      *)
(* whole result 0.0; the length guard counts the unmatched points, and     *)
(* past it a zero close can make the result nan).                          *)
(***************************************************************************)
C8_UnmatchedNoEffect ==
    (last.metric = "beta" /\ PositiveCloses(prices) /\ PositiveCloses(market))
        => UnmatchedHaveNoEffect

C8_UnmatchedNoEffectValidPoints ==
    (last.metric = "beta" /\ AllParsable(prices) /\ AllParsable(market)
        /\ PositiveCloses(prices) /\ PositiveCloses(market))
        => UnmatchedHaveNoEffect

\* an unmatched benchmark point beside three aligned rows whose beta is not 0
C8_Witness ==
    /\ last.metric = "beta"
    /\ AllParsable(prices) /\ AllParsable(market)
    /\ PositiveCloses(prices) /\ PositiveCloses(market)
    /\ \E i \in 1 .. Len(market) : market[i].date \notin DateStrings(prices)
    /\ last.path = "beta"
    /\ last.value # Zero

(***************************************************************************)
(* C9: in calculate_beta, K aligned rows give K-1 return pairs, fewer than *)
(* 2 pairs give 0.0, so two series sharing at most 2 dates give 0.0, and   *)
(* the covariance step is reached only with 2 pairs or more.  As claimed:  *)
(* for all series (it fails already on series of readable dates and        *)
(* positive closes, which is how it is stated here).  As amended: K rows   *)
(* give at most K-1 pairs, and exactly K-1 when no close is 0; at most 2   *)
(* aligned rows give 0.0, which is the case of at most 2 shared dates when *)
(* no series repeats a date.                                               *)
(***************************************************************************)
C9_ReturnPairs ==
    (last.metric = "beta" /\ AllParsable(prices) /\ AllParsable(market)
        /\ PositiveCloses(prices) /\ PositiveCloses(market)) =>
        /\ PastMerge => last.obs.pairs = last.obs.aligned - 1
        /\ (last.path # "error" /\ last.obs.pairs < 2) => last.value = Zero
        /\ Cardinality(SharedDates) <= 2 => last.value = Zero
        /\ ReachedCovariance => last.obs.pairs >= 2

C9_ReturnPairsAmended ==
    last.metric = "beta" =>
        /\ PastMerge => last.obs.pairs <= last.obs.aligned - 1
        /\ (PastMerge /\ PositiveCloses(prices) /\ PositiveCloses(market))
              => last.obs.pairs = last.obs.aligned - 1
        /\ (last.path # "error" /\ last.obs.pairs < 2) => last.value = Zero
        /\ (last.path # "error" /\ last.obs.aligned <= 2) => last.value = Zero
        /\ (Cardinality(SharedDates) <= 2 /\ UniqueDates(prices)
              /\ UniqueDates(market)) => last.value = Zero
        /\ ReachedCovariance => last.obs.pairs >= 2

\* three aligned rows, two return pairs, and a beta computed from them
C9_Witness ==
    /\ last.metric = "beta"
    /\ WellFormed(prices) /\ WellFormed(market)
    /\ last.obs.aligned = 3
    /\ last.obs.pairs = 2
    /\ last.path = "beta"
    /\ last.value # Zero

(***************************************************************************)
(* C10: in calculate_xirr, when the root-finder fails and the days from    *)
(* the first to the last sorted point are zero or negative, the fallback   *)
(* returns 0.0 without annualizing; the closed form is returned only when  *)
(* the root-finder failed and days > 0.                                    *)
(***************************************************************************)
C10_FallbackGuard ==
    last.metric = "xirr" =>
        /\ last.path = "closed_form" => last.obs.days > 0
        /\ last.path = "fallback_zero" => (last.obs.days <= 0 /\ last.value = Zero)
        /\ (Len(prices) >= 2 /\ AllParsable(prices) /\ SameDay(prices))
              => (last.path = "fallback_zero" /\ last.value = Zero)
        /\ (solver = "fail" /\ Len(prices) = 2 /\ AllParsable(prices)
              /\ StrRank(prices[1].date) < StrRank(prices[2].date)
              /\ strptime(prices[1].date) > strptime(prices[2].date))
              => (last.path = "fallback_zero" /\ last.value = Zero)
        /\ last.path \in {"closed_form", "fallback_zero"}
              => (solver = "fail" \/ last.obs.days = 0
                    \/ \E i \in 1 .. Len(prices) : prices[i].close = 0)

\* the sorted order runs against the calendar: days < 0
C10_Witness ==
    /\ last.metric = "xirr"
    /\ last.path = "fallback_zero"
    /\ last.obs.days < 0
    /\ PositiveCloses(prices)
    /\ ~SameCloses(prices)

(***************************************************************************)
(* C11: calculate_xirr depends only on the points of the earliest and the  *)
(* latest day: on a series of 2 or more points with unique dates, adding,  *)
(* removing or changing the close of a point strictly between those days   *)
(* leaves the result unchanged, and the two cash flows are                 *)
(* -close(earliest) at the earliest and +close(latest) at the latest day.  *)
(* As claimed: for every such series (stated here on positive closes,      *)
(* where it fails already).  It holds on the series whose date strings     *)
(* sort in the order of their days.                                        *)
(***************************************************************************)
C11_EndpointsOnly ==
    (last.metric = "xirr" /\ Len(prices) >= 2 /\ AllParsable(prices)
        /\ UniqueDays(prices) /\ PositiveCloses(prices)) =>
        /\ FromEndpoints
        /\ InsideHasNoEffect
        /\ \A q \in Joinable(prices) :
              calculate_xirr(Append(prices, q)).value = last.value

C11_EndpointsOnlyCalendarOrdered ==
    (last.metric = "xirr" /\ Len(prices) >= 2 /\ AllParsable(prices)
        /\ UniqueDays(prices) /\ CalendarOrdered(prices)) =>
        /\ FromEndpoints
        /\ InsideHasNoEffect
        /\ \A q \in Joinable(prices) :
              CalendarOrdered(Append(prices, q))
                  => calculate_xirr(Append(prices, q)).value = last.value

\* three days given inside day first, its close unlike that of the latest day
C11_Witness ==
    /\ last.metric = "xirr"
    /\ Len(prices) = 3
    /\ AllParsable(prices) /\ UniqueDays(prices) /\ CalendarOrdered(prices)
    /\ PositiveCloses(prices)
    /\ Inside(prices, prices[1].date)
    /\ prices[1].close # Latest(prices).close
    /\ Earliest(prices).close # Latest(prices).close
    /\ last.path = "solver"
    /\ last.value # Zero

====
